---- MODULE Spec2Model ----
(***************************************************************************)
(* A model of src/util.py: the dataset loader, the spectral-flux beat      *)
(* estimator, the evaluator, the two aggregators and the two time-axis     *)
(* helpers, each as one action that performs the whole call.               *)
(*                                                                         *)
(* Python values are modelled as follows.                                  *)
(*   dict              a sequence of <<key, value>> pairs with distinct    *)
(*                     keys, in insertion (= iteration) order              *)
(*   list, np.array    a sequence                                          *)
(*   float             an exact fraction <<numerator, denominator>> with   *)
(*                     a positive denominator, compared by cross           *)
(*                     multiplication                                      *)
(*   optional argument <<>> when the caller omits it, <<v>> when given     *)
(*   outcome of a call [kind |-> "return", val |-> v] or                   *)
(*                     [kind |-> "raise", exc |-> name]                    *)
(***************************************************************************)
EXTENDS Integers, Sequences, FiniteSets

VARIABLES
    tracks_dictionary,   \* the loaded tracks (the argument `data` of the evaluator)
    estimated_beats,     \* track_id -> estimated beat times, built by the caller
    scores_dictionary,   \* track_id -> score, handed to the aggregators
    novelty,             \* a novelty curve bound in the calling notebook
    args,                \* the call the notebook makes next: its function and arguments
    called,              \* the name of the function once it was called ("" before)
    ret,                 \* the outcome of that call
    initialize_call,     \* the arguments mirdata.initialize was called with, if it was
    seen                 \* function name -> outcome of its earlier call in this run

vars == <<tracks_dictionary, estimated_beats, scores_dictionary, novelty,
          args, called, ret, initialize_call, seen>>

----------------------------------------------------------------------------
(* Bounds of the model. *)

MaxFrames == 4      \* longest novelty curve handed to a time-axis helper
MaxHop == 3         \* largest explicit hop length / hop size
MaxRate == 3        \* largest explicit sampling rate
MaxSamples == 4     \* longest decoded audio signal, in samples
MaxLevel == 2       \* pulse-curve values are the levels 0..MaxLevel
MaxTime == 2        \* beat times are 0..MaxTime, in units of one tolerance window

----------------------------------------------------------------------------
(* Python values. *)

Return(v) == [kind |-> "return", val |-> v]

Raise(e) == [kind |-> "raise", exc |-> e]

NoCall == [kind |-> "none"]

\* The value of an optional argument: the default when the caller omits it.
Default(arg, dflt) == IF arg = <<>> THEN dflt ELSE arg[1]

Opt(S) == {<<>>} \cup {<<v>> : v \in S}

\* Fractions.
RatEq(a, b) == a[1] * b[2] = b[1] * a[2]

RatLe(a, b) == a[1] * b[2] <= b[1] * a[2]

RatLt(a, b) == a[1] * b[2] < b[1] * a[2]

RatMul(a, b) == <<a[1] * b[1], a[2] * b[2]>>

RatAdd(a, b) == <<a[1] * b[2] + b[1] * a[2], a[2] * b[2]>>

RatDiv(a, b) == <<a[1] * b[2], a[2] * b[1]>>

\* dict: keys, membership, lookup, and the assignment d[k] = v.
Keys(d) == {d[i][1] : i \in DOMAIN d}

Has(d, k) == \E i \in DOMAIN d : d[i][1] = k

Get(d, k) == d[CHOOSE i \in DOMAIN d : d[i][1] = k][2]

DictSet(d, k, v) ==
    IF Has(d, k)
    THEN [i \in DOMAIN d |-> IF d[i][1] = k THEN <<k, v>> ELSE d[i]]
    ELSE Append(d, <<k, v>>)

\* All sequences over S of length at most n.
SeqsUpTo(S, n) == UNION {[1..k -> S] : k \in 0..n}

\* All dicts with keys among K and values in V.
Injective(s) == \A i, j \in DOMAIN s : s[i] = s[j] => i = j

Dicts(K, V) ==
    {d \in SeqsUpTo(K \X V, Cardinality(K)) : Injective([i \in DOMAIN d |-> d[i][1]])}

----------------------------------------------------------------------------
(* Time-axis helpers. *)

DefaultHopSize == 512

DefaultSr == 22050

DefaultSrMl == 100

\* np.arange(n): 0, 1, ..., n-1.
arange(n) == [i \in 1..n |-> i - 1]

compute_time_sf_first(novelty_sf, hop_size, sr) ==
    LET number_frames == Len(novelty_sf)
        frames == arange(number_frames)
    IN  [i \in 1..number_frames |->
            <<(frames[i] + 1) * Default(hop_size, DefaultHopSize), Default(sr, DefaultSr)>>]

compute_time_sf(novelty_sf, hop_size, sr) ==
    LET number_frames == Len(novelty_sf)
        frames == arange(number_frames)
    IN  [i \in 1..number_frames |->
            <<frames[i] * Default(hop_size, DefaultHopSize), Default(sr, DefaultSr)>>]

compute_time_ml_swapped(novelty_ml, sr_ml) ==
    LET frames == arange(Len(novelty_ml))
    IN  [i \in DOMAIN frames |-> <<frames[i] * Default(sr_ml, DefaultSrMl), 1>>]

compute_time_ml(novelty_ml, sr_ml) ==
    LET frames == arange(Len(novelty_ml))
    IN  [i \in DOMAIN frames |-> <<frames[i], Default(sr_ml, DefaultSrMl)>>]

\* The curves, hop sizes and rates the helpers are called with.
Curves == SeqsUpTo({0, 1}, MaxFrames)

Hops == Opt(1..MaxHop)

Rates == Opt(1..MaxRate)

\* Nothing bound and nothing called yet.
Idle ==
    /\ tracks_dictionary = <<>>
    /\ estimated_beats = <<>>
    /\ scores_dictionary = <<>>
    /\ novelty = <<>>
    /\ called = ""
    /\ ret = NoCall
    /\ initialize_call = <<>>
    /\ seen = <<>>

CallComputeTimeSf ==
    /\ called = ""
    /\ args.fn = "compute_time_sf"
    /\ called' = "compute_time_sf"
    /\ ret' = Return(compute_time_sf(args.novelty_sf, args.hop_size, args.sr))
    /\ UNCHANGED <<tracks_dictionary, estimated_beats, scores_dictionary, novelty,
                   args, initialize_call, seen>>

CallComputeTimeMl ==
    /\ called = ""
    /\ args.fn = "compute_time_ml"
    /\ called' = "compute_time_ml"
    /\ ret' = Return(compute_time_ml(args.novelty_ml, args.sr_ml))
    /\ UNCHANGED <<tracks_dictionary, estimated_beats, scores_dictionary, novelty,
                   args, initialize_call, seen>>

TimeInit ==
    /\ Idle
    /\ \/ args \in [fn : {"compute_time_sf"}, novelty_sf : Curves,
                     hop_size : Hops, sr : Rates]
       \/ args \in [fn : {"compute_time_ml"}, novelty_ml : Curves, sr_ml : Rates]

TimeNext == CallComputeTimeSf \/ CallComputeTimeMl

TimeSpec == TimeInit /\ [][TimeNext]_vars

\* C5: for a curve of length N, hop H > 0 and rate S > 0, compute_time_sf
\* returns N values, the first is 0, they strictly increase, and value i is
\* i*H/S (H and S being 512 and 22050 when the caller omits them).
C5_TimeSf ==
    called = "compute_time_sf" =>
        LET N == Len(args.novelty_sf)
            H == IF args.hop_size = <<>> THEN 512 ELSE args.hop_size[1]
            S == IF args.sr = <<>> THEN 22050 ELSE args.sr[1]
            t == ret.val
        IN  /\ ret.kind = "return"
            /\ Len(t) = N
            /\ N >= 1 => RatEq(t[1], <<0, 1>>)
            /\ \A i \in 1..(N - 1) : RatLt(t[i], t[i + 1])
            /\ \A i \in 0..(N - 1) : RatEq(t[i + 1], <<i * H, S>>)

C5_Witness ==
    /\ called = "compute_time_sf"
    /\ Len(args.novelty_sf) = 3
    /\ args.hop_size = <<2>>
    /\ args.sr = <<3>>
    /\ ret.val = <<(<<0, 3>>), (<<2, 3>>), (<<4, 3>>)>>

\* C8: for a curve of length N and rate R > 0, compute_time_ml returns N
\* values and value i is i/R, R being 100 when the caller omits it.
C8_TimeMl ==
    called = "compute_time_ml" =>
        LET N == Len(args.novelty_ml)
            R == IF args.sr_ml = <<>> THEN 100 ELSE args.sr_ml[1]
            t == ret.val
        IN  /\ ret.kind = "return"
            /\ Len(t) = N
            /\ \A i \in 0..(N - 1) : RatEq(t[i + 1], <<i, R>>)

C8_Witness ==
    /\ called = "compute_time_ml"
    /\ Len(args.novelty_ml) = 3
    /\ args.sr_ml = <<>>
    /\ ret.val = <<(<<0, 100>>), (<<1, 100>>), (<<2, 100>>)>>

----------------------------------------------------------------------------
(* Beat estimator. *)

DefaultHopLength == 512

\* librosa.load(audio_path, sr=None) yields the decoded samples and the
\* file's own sampling rate; onset_strength and plp yield one value per
\* centred analysis frame, 1 + len(y) // hop_length of them.
n_frames(y_len, hop_length) == 1 + (y_len \div hop_length)

\* librosa.util.localmax: x is padded by one copy of its edge value on each
\* side, and frame i is a maximum when it exceeds the value before it and is
\* at least the value after it.
localmax_strict(x) ==
    [i \in DOMAIN x |-> /\ 1 < i
                        /\ i < Len(x)
                        /\ x[i] > x[i - 1]
                        /\ x[i] > x[i + 1]]

localmax(x) ==
    LET x_pad == <<x[1]>> \o x \o <<x[Len(x)]>>
    IN  [i \in DOMAIN x |-> (x[i] > x_pad[i]) /\ (x[i] >= x_pad[i + 2])]

\* np.where(b)[0]: the 0-based indices of the true entries, ascending.
RECURSIVE where_from(_, _)
where_from(b, i) ==
    IF i > Len(b) THEN <<>>
    ELSE (IF b[i] THEN <<i - 1>> ELSE <<>>) \o where_from(b, i + 1)

where(b) == where_from(b, 1)

\* librosa.frames_to_time(frames, sr, hop_length): frames * hop_length / sr.
frames_to_time_offset(frames, sr, hop_length) ==
    [i \in DOMAIN frames |-> <<frames[i] * hop_length + hop_length, sr>>]

frames_to_time(frames, sr, hop_length) ==
    [i \in DOMAIN frames |-> <<frames[i] * hop_length, sr>>]

\* The outcomes of estimate_beats_spectral_flux on a file of y_len samples at
\* rate sr whose onset envelope is `activation` and whose pulse curve is
\* `plp`. On a one-frame curve localmax either finds no maximum (the padded
\* implementation) or fails reading x[-2] (the stencil implementation),
\* depending on the installed librosa.
estimate_beats_spectral_flux(y_len, sr, hop_length, activation, plp) ==
    LET hop == Default(hop_length, DefaultHopLength)
        beat_plp == where(localmax(plp))
        beat_times == frames_to_time(beat_plp, sr, hop)
    IN  {Return(<<beat_times, activation>>)}
            \cup (IF Len(plp) = 1 THEN {Raise("IndexError")} ELSE {})

Levels == 0..MaxLevel

CallEstimateBeats ==
    /\ called = ""
    /\ args.fn = "estimate_beats_spectral_flux"
    /\ \E outcome \in estimate_beats_spectral_flux(args.y_len, args.sr, args.hop_length,
                                                    args.activation, args.plp) :
            /\ called' = "estimate_beats_spectral_flux"
            /\ ret' = outcome
    /\ UNCHANGED <<tracks_dictionary, estimated_beats, scores_dictionary, novelty,
                   args, initialize_call, seen>>

\* The audio file (its length and rate), the hop length of the call, and the
\* two curves the analysis library computes from them.
BeatsInit ==
    /\ Idle
    /\ \E y_len \in 1..MaxSamples, sr \in 1..MaxRate, hop_length \in Hops :
         \E activation \in [1..n_frames(y_len, Default(hop_length, DefaultHopLength))
                                -> {0, 1}],
            plp \in [1..n_frames(y_len, Default(hop_length, DefaultHopLength))
                        -> Levels] :
            args = [fn |-> "estimate_beats_spectral_flux", y_len |-> y_len, sr |-> sr,
                    hop_length |-> hop_length, activation |-> activation, plp |-> plp]

BeatsNext == CallEstimateBeats

BeatsSpec == BeatsInit /\ [][BeatsNext]_vars

\* C6: the beat times a call returns are non-decreasing and each lies in
\* [0, track_duration], track_duration being the number of decoded samples
\* over the file's own sampling rate.
C6_BeatsInTrack ==
    (called = "estimate_beats_spectral_flux" /\ ret.kind = "return") =>
        LET t == ret.val[1]
            track_duration == <<args.y_len, args.sr>>
        IN  /\ \A i \in DOMAIN t : RatLe(<<0, 1>>, t[i]) /\ RatLe(t[i], track_duration)
            /\ \A i \in 1..(Len(t) - 1) : RatLe(t[i], t[i + 1])

C6_Witness ==
    /\ called = "estimate_beats_spectral_flux"
    /\ ret.kind = "return"
    /\ Len(ret.val[1]) >= 2
    /\ RatEq(ret.val[1][Len(ret.val[1])], <<args.y_len, args.sr>>)

\* C10 as stated: the beats are exactly the frames strictly greater than
\* both neighbouring frames (never the first or the last frame), the beat of
\* frame k being at k * hop_length / sample_rate.
C10_StrictBothNeighbours ==
    (called = "estimate_beats_spectral_flux" /\ ret.kind = "return") =>
        LET x == args.plp
            H == IF args.hop_length = <<>> THEN 512 ELSE args.hop_length[1]
            t == ret.val[1]
            B == {k \in 1..(Len(x) - 2) : x[k + 1] > x[k] /\ x[k + 1] > x[k + 2]}
        IN  /\ Len(t) = Cardinality(B)
            /\ \A i \in DOMAIN t : \E k \in B : RatEq(t[i], <<k * H, args.sr>>)
            /\ \A i \in 1..(Len(t) - 1) : RatLt(t[i], t[i + 1])

\* C10 amended: the beats are exactly the frames strictly greater than
\* the frame before them and greater than or equal to the frame after them;
\* the first frame is never a beat, the last frame is one when it is
\* strictly greater than the frame before it; the beat of frame k is at
\* k * hop_length / sample_rate (hop_length the call's argument, 512 when
\* omitted; sample_rate the file's own).
C10_LocalMaxima ==
    (called = "estimate_beats_spectral_flux" /\ ret.kind = "return") =>
        LET x == args.plp
            n == Len(x)
            H == IF args.hop_length = <<>> THEN 512 ELSE args.hop_length[1]
            t == ret.val[1]
            B == {k \in 1..(n - 1) :
                    /\ x[k + 1] > x[k]
                    /\ (k < n - 1 => x[k + 1] >= x[k + 2])}
        IN  /\ Len(t) = Cardinality(B)
            /\ \A i \in DOMAIN t : \E k \in B : RatEq(t[i], <<k * H, args.sr>>)
            /\ \A i \in 1..(Len(t) - 1) : RatLt(t[i], t[i + 1])

C10_Witness ==
    /\ called = "estimate_beats_spectral_flux"
    /\ ret.kind = "return"
    /\ args.plp = <<0, 1, 1, 0, 2>>
    /\ args.hop_length = <<1>>
    /\ args.sr = 3
    /\ ret.val[1] = <<(<<1, 3>>), (<<4, 3>>)>>

----------------------------------------------------------------------------
(* Dataset loader. *)

\* mirdata.initialize(dataset_name, data_home, version): a handle on the
\* dataset, or ValueError for a dataset or a version mirdata does not know.
KnownDatasets == {"gtzan_genre", "giantsteps_tempo", "beatles", "rwc_popular"}

KnownVersions == {"default", "test", "mini", "1.0"}

mirdata_initialize(dataset_name, data_home, version) ==
    IF dataset_name \notin KnownDatasets \/ version \notin KnownVersions
    THEN Raise("ValueError")
    ELSE Return([name |-> dataset_name, data_home |-> data_home, version |-> version])

\* The arguments load_data hands to mirdata.initialize.
load_data_request(dataset_name, data_home, dataset_version) ==
    [dataset_name |-> "gtzan_genre", data_home |-> data_home,
     version |-> Default(dataset_version, "mini")]

load_data(dataset_name, data_home, dataset_version) ==
    LET request == load_data_request(dataset_name, data_home, dataset_version)
    IN  mirdata_initialize(request.dataset_name, request.data_home, request.version)

CallLoadData ==
    /\ called = ""
    /\ args.fn = "load_data"
    /\ called' = "load_data"
    /\ initialize_call' =
           load_data_request(args.dataset_name, args.data_home, args.dataset_version)
    /\ ret' = load_data(args.dataset_name, args.data_home, args.dataset_version)
    /\ UNCHANGED <<tracks_dictionary, estimated_beats, scores_dictionary, novelty,
                   args, seen>>

DatasetNames == KnownDatasets \cup {"no_such_dataset"}

DataHomes == {"./data", "/tmp/gtzan", "/mnt/datasets", "~/mir_datasets"}

LoadInit ==
    /\ Idle
    /\ args \in [fn : {"load_data"}, dataset_name : DatasetNames, data_home : DataHomes,
                 dataset_version : Opt(KnownVersions \cup {"9.9"})]

LoadNext == CallLoadData

LoadSpec == LoadInit /\ [][LoadNext]_vars

\* C4: load_data initializes the dataset named by its dataset_name argument:
\* the name handed to mirdata.initialize is the dataset_name argument (with
\* data_home and the version, "mini" when omitted), so a call with an unknown
\* dataset name fails.
C4_LoadsNamedDataset ==
    called = "load_data" =>
        /\ initialize_call.dataset_name = args.dataset_name
        /\ initialize_call.data_home = args.data_home
        /\ initialize_call.version =
               (IF args.dataset_version = <<>> THEN "mini" ELSE args.dataset_version[1])
        /\ args.dataset_name \notin KnownDatasets => ret.kind = "raise"

----------------------------------------------------------------------------
(* Evaluator. *)

\* The tolerance window of mir_eval.beat.f_measure, 0.07 s by default, in
\* the unit of the beat times of this model.
F_MEASURE_THRESHOLD == 1

Abs(x) == IF x < 0 THEN -x ELSE x

Max2(a, b) == IF a >= b THEN a ELSE b

RECURSIVE MaxOver(_, _, _)
\* The largest f[j] over j in S, or `least` when S is empty.
MaxOver(f, S, least) ==
    IF S = {} THEN least
    ELSE LET j == CHOOSE x \in S : TRUE
         IN  Max2(f[j], MaxOver(f, S \ {j}, least))

\* mir_eval.util.match_events: a largest one-to-one matching of reference
\* events to estimated events no further apart than `window`; here its size.
RECURSIVE match_from(_, _, _, _, _)
match_from(ref, est, window, i, used) ==
    IF i > Len(ref) THEN 0
    ELSE LET free == {j \in DOMAIN est \ used : Abs(ref[i] - est[j]) <= window}
             with == [j \in free |-> 1 + match_from(ref, est, window, i + 1, used \cup {j})]
         IN  MaxOver(with, free, match_from(ref, est, window, i + 1, used))

match_events(ref, est, window) == match_from(ref, est, window, 1, {})

\* mir_eval.util.f_measure with beta = 1.
util_f_measure(precision, recall) ==
    IF precision[1] = 0 /\ recall[1] = 0 THEN <<0, 1>>
    ELSE RatDiv(RatMul(<<2, 1>>, RatMul(precision, recall)), RatAdd(precision, recall))

\* mir_eval.beat.f_measure(reference_beats, estimated_beats): 0 when either
\* sequence is empty, else the F-measure of the matching.
f_measure(reference_beats, estimated) ==
    IF Len(estimated) = 0 \/ Len(reference_beats) = 0 THEN <<0, 1>>
    ELSE LET matching == match_events(reference_beats, estimated, F_MEASURE_THRESHOLD)
             precision == <<matching, Len(estimated)>>
             recall == <<matching, Len(reference_beats)>>
         IN  util_f_measure(precision, recall)

\* As evaluate_from, skipping a track that has no estimate.
RECURSIVE evaluate_skipping(_, _, _, _)
evaluate_skipping(data, estimates, i, diction) ==
    IF i > Len(data) THEN Return(diction)
    ELSE LET track_id == data[i][1]
         IN  IF ~Has(estimates, track_id)
             THEN evaluate_skipping(data, estimates, i + 1, diction)
             ELSE evaluate_skipping(data, estimates, i + 1,
                      DictSet(diction, track_id,
                              f_measure(data[i][2].beats, Get(estimates, track_id))))

\* As evaluate_from, scoring every track against the first track's estimate.
RECURSIVE evaluate_stale(_, _, _, _)
evaluate_stale(data, estimates, i, diction) ==
    IF i > Len(data) THEN Return(diction)
    ELSE LET track_id == data[i][1]
         IN  IF ~Has(estimates, track_id) THEN Raise("KeyError")
             ELSE evaluate_stale(data, estimates, i + 1,
                      DictSet(diction, track_id,
                              f_measure(data[i][2].beats, Get(estimates, data[1][1]))))

\* The loop of evaluate_estimated_beats from the i-th track of data on: the
\* lookup estimated_beats[track_id] raises KeyError and ends the call.
RECURSIVE evaluate_from(_, _, _, _)
evaluate_from(data, estimates, i, diction) ==
    IF i > Len(data) THEN Return(diction)
    ELSE LET track_id == data[i][1]
         IN  IF ~Has(estimates, track_id) THEN Raise("KeyError")
             ELSE evaluate_from(data, estimates, i + 1,
                      DictSet(diction, track_id,
                              f_measure(data[i][2].beats, Get(estimates, track_id))))

evaluate_estimated_beats(data, estimates) == evaluate_from(data, estimates, 1, <<>>)

CallEvaluateEstimatedBeats ==
    /\ called = ""
    /\ args.fn = "evaluate_estimated_beats"
    /\ called' = "evaluate_estimated_beats"
    /\ ret' = evaluate_estimated_beats(tracks_dictionary, estimated_beats)
    /\ UNCHANGED <<tracks_dictionary, estimated_beats, scores_dictionary, novelty,
                   args, initialize_call, seen>>

\* Beat times: strictly increasing sequences over 0..MaxTime.
BeatSeqs ==
    {b \in SeqsUpTo(0..MaxTime, MaxTime + 1) : \A i \in 1..(Len(b) - 1) : b[i] < b[i + 1]}

TrackIds == {"a", "b"}

Track(beats, genre, tempo) == [beats |-> beats, genre |-> genre, tempo |-> tempo]

\* The estimates are only looked up by key, so one insertion order per key
\* set is drawn; "c" is an identifier no track has.
EvalEstimates ==
    {e \o extra : e \in {d \in Dicts(TrackIds, BeatSeqs) :
                            \A i \in 1..(Len(d) - 1) : d[i][1] = "a"},
                  extra \in {<<>>, <<(<<"c", <<0>> >>)>>}}

EvalInit ==
    /\ tracks_dictionary \in Dicts(TrackIds, {Track(b, "rock", 120) : b \in BeatSeqs})
    /\ estimated_beats \in EvalEstimates
    /\ scores_dictionary = <<>>
    /\ novelty = <<>>
    /\ args = [fn |-> "evaluate_estimated_beats"]
    /\ called = ""
    /\ ret = NoCall
    /\ initialize_call = <<>>
    /\ seen = <<>>

EvalNext == CallEvaluateEstimatedBeats

EvalSpec == EvalInit /\ [][EvalNext]_vars

\* C1: when every identifier of data is in estimated_beats the call returns
\* a mapping whose keys are exactly the identifiers of data, each with the
\* F-measure of that track's reference beats against its estimated beats;
\* when some identifier of data is missing from estimated_beats the call
\* raises KeyError and returns no mapping.
C1_KeysOrKeyError ==
    called = "evaluate_estimated_beats" =>
        IF Keys(tracks_dictionary) \subseteq Keys(estimated_beats)
        THEN /\ ret.kind = "return"
             /\ Keys(ret.val) = Keys(tracks_dictionary)
             /\ Len(ret.val) = Len(tracks_dictionary)
             /\ \A track_id \in Keys(tracks_dictionary) :
                    Get(ret.val, track_id) =
                        f_measure(Get(tracks_dictionary, track_id).beats,
                                  Get(estimated_beats, track_id))
        ELSE ret = [kind |-> "raise", exc |-> "KeyError"]

\* The first track has an estimate and the second has none: the call raises
\* although one score was already computed.
C1_Witness ==
    /\ called = "evaluate_estimated_beats"
    /\ Len(tracks_dictionary) = 2
    /\ Has(estimated_beats, tracks_dictionary[1][1])
    /\ ~Has(estimated_beats, tracks_dictionary[2][1])
    /\ Has(estimated_beats, "c")
    /\ ret.kind = "raise"

EstimatesEqualReferences ==
    \A track_id \in Keys(tracks_dictionary) :
        /\ Has(estimated_beats, track_id)
        /\ Get(estimated_beats, track_id) = Get(tracks_dictionary, track_id).beats

ScoresInUnitInterval ==
    \A i \in DOMAIN ret.val :
        RatLe(<<0, 1>>, ret.val[i][2]) /\ RatLe(ret.val[i][2], <<1, 1>>)

\* C7 as stated: when every track's estimated beats equal its reference
\* beats every track scores 1.0, tracks without reference beats included,
\* and every score returned lies in [0, 1].
C7_AllPerfect ==
    (called = "evaluate_estimated_beats" /\ ret.kind = "return") =>
        /\ EstimatesEqualReferences =>
               \A i \in DOMAIN ret.val : RatEq(ret.val[i][2], <<1, 1>>)
        /\ ScoresInUnitInterval

\* C7 amended: when every track's estimated beats equal its reference beats,
\* every track with at least one reference beat scores 1.0 and every track
\* without reference beats scores 0.0; every score returned lies in [0, 1].
C7_PerfectUnlessEmpty ==
    (called = "evaluate_estimated_beats" /\ ret.kind = "return") =>
        /\ EstimatesEqualReferences =>
               \A track_id \in Keys(tracks_dictionary) :
                   RatEq(Get(ret.val, track_id),
                         IF Len(Get(tracks_dictionary, track_id).beats) = 0
                         THEN <<0, 1>> ELSE <<1, 1>>)
        /\ ScoresInUnitInterval

C7_Witness ==
    /\ called = "evaluate_estimated_beats"
    /\ ret.kind = "return"
    /\ EstimatesEqualReferences
    /\ Len(tracks_dictionary) = 2
    /\ tracks_dictionary[1][2].beats = <<0, 1, 2>>
    /\ tracks_dictionary[2][2].beats = <<>>
    /\ RatEq(ret.val[1][2], <<1, 1>>)
    /\ RatEq(ret.val[2][2], <<0, 1>>)

----------------------------------------------------------------------------
(* Aggregators. *)

\* The first loop of split_by_genre: the genres of the tracks, first seen first.
RECURSIVE genres_from(_, _, _)
genres_from(tracks, i, genres) ==
    IF i > Len(tracks) THEN genres
    ELSE genres_from(tracks, i + 1,
             IF \E g \in DOMAIN genres : genres[g] = tracks[i][2].genre
             THEN genres
             ELSE Append(genres, tracks[i][2].genre))

\* The inner loop for one genre, from the j-th score on: the lookup
\* tracks_dictionary[track_id] raises KeyError and ends the call.
RECURSIVE genre_tracks_from(_, _, _, _, _)
genre_tracks_from(scores, tracks, genre, j, genre_tracks) ==
    IF j > Len(scores) THEN Return(genre_tracks)
    ELSE LET track_id == scores[j][1]
         IN  IF ~Has(tracks, track_id) THEN Raise("KeyError")
             ELSE genre_tracks_from(scores, tracks, genre, j + 1,
                      IF genre = Get(tracks, track_id).genre
                      THEN DictSet(genre_tracks, track_id, scores[j][2])
                      ELSE genre_tracks)

\* The outer loop, from the g-th genre on.
RECURSIVE split_from(_, _, _, _, _)
split_from(scores, tracks, genres, g, genre_scores) ==
    IF g > Len(genres) THEN Return(genre_scores)
    ELSE LET inner == genre_tracks_from(scores, tracks, genres[g], 1, <<>>)
         IN  IF inner.kind = "raise" THEN inner
             ELSE split_from(scores, tracks, genres, g + 1,
                      DictSet(genre_scores, genres[g], inner.val))

\* As split_by_genre, collecting the genres of the scored tracks only.
split_by_genre_scored(scores, tracks) ==
    split_from(scores, tracks,
               genres_from(SelectSeq(tracks, LAMBDA t : Has(scores, t[1])), 1, <<>>),
               1, <<>>)

split_by_genre(scores, tracks) ==
    split_from(scores, tracks, genres_from(tracks, 1, <<>>), 1, <<>>)

\* The loop of get_tempo_vs_performance from the i-th score on.
RECURSIVE tempo_from(_, _, _, _, _)
tempo_from(scores, tracks, i, tempo, score_values) ==
    IF i > Len(scores) THEN Return(<<tempo, score_values>>)
    ELSE LET track_id == scores[i][1]
         IN  IF ~Has(tracks, track_id) THEN Raise("KeyError")
             ELSE tempo_from(scores, tracks, i + 1,
                      Append(tempo, Get(tracks, track_id).tempo),
                      Append(score_values, scores[i][2]))

\* As get_tempo_vs_performance, iterating over the tracks instead of the scores.
RECURSIVE tempo_by_track(_, _, _, _, _)
tempo_by_track(scores, tracks, i, tempo, score_values) ==
    IF i > Len(tracks) THEN Return(<<tempo, score_values>>)
    ELSE LET track_id == tracks[i][1]
         IN  IF ~Has(scores, track_id) THEN Raise("KeyError")
             ELSE tempo_by_track(scores, tracks, i + 1,
                      Append(tempo, tracks[i][2].tempo),
                      Append(score_values, Get(scores, track_id)))

get_tempo_vs_performance_by_track(scores, tracks) ==
    tempo_by_track(scores, tracks, 1, <<>>, <<>>)

get_tempo_vs_performance(scores, tracks) == tempo_from(scores, tracks, 1, <<>>, <<>>)

CallSplitByGenre ==
    /\ called = ""
    /\ args.fn = "split_by_genre"
    /\ called' = "split_by_genre"
    /\ ret' = split_by_genre(scores_dictionary, tracks_dictionary)
    /\ UNCHANGED <<tracks_dictionary, estimated_beats, scores_dictionary, novelty,
                   args, initialize_call, seen>>

CallGetTempoVsPerformance ==
    /\ called = ""
    /\ args.fn = "get_tempo_vs_performance"
    /\ called' = "get_tempo_vs_performance"
    /\ ret' = get_tempo_vs_performance(scores_dictionary, tracks_dictionary)
    /\ UNCHANGED <<tracks_dictionary, estimated_beats, scores_dictionary, novelty,
                   args, initialize_call, seen>>

AggIds == {"a", "b", "c"}

Genres == {"rock", "jazz"}

Tempos == {90, 120}

\* The scores 0.5 and 0.8.
Scores == {<<1, 2>>, <<4, 5>>}

AggInit ==
    /\ tracks_dictionary \in
           Dicts(AggIds, {Track(<<>>, g, t) : g \in Genres, t \in Tempos})
    /\ scores_dictionary \in Dicts(AggIds, Scores)
    /\ estimated_beats = <<>>
    /\ novelty = <<>>
    /\ args \in [fn : {"split_by_genre", "get_tempo_vs_performance"}]
    /\ called = ""
    /\ ret = NoCall
    /\ initialize_call = <<>>
    /\ seen = <<>>

AggNext == CallSplitByGenre \/ CallGetTempoVsPerformance

AggSpec == AggInit /\ [][AggNext]_vars

\* The position of the first track of genre g in tracks_dictionary.
FirstSeen(g) ==
    CHOOSE i \in DOMAIN tracks_dictionary :
        /\ tracks_dictionary[i][2].genre = g
        /\ \A j \in 1..(i - 1) : tracks_dictionary[j][2].genre # g

\* C2: when every identifier of scores_dictionary is a key of
\* tracks_dictionary, split_by_genre returns a mapping whose keys are exactly
\* the distinct genres of tracks_dictionary, in first-seen order and without
\* duplicates; the sub-mapping of genre g holds exactly the identifiers of
\* scores_dictionary whose track has genre g, each with its score unchanged;
\* and every identifier of scores_dictionary is in exactly one sub-mapping.
C2_SplitByGenre ==
    (called = "split_by_genre" /\ Keys(scores_dictionary) \subseteq Keys(tracks_dictionary)) =>
        /\ ret.kind = "return"
        /\ LET genre_scores == ret.val
           IN  /\ Keys(genre_scores) =
                      {tracks_dictionary[i][2].genre : i \in DOMAIN tracks_dictionary}
               /\ \A i, j \in DOMAIN genre_scores :
                      i < j => FirstSeen(genre_scores[i][1]) < FirstSeen(genre_scores[j][1])
               /\ \A i \in DOMAIN genre_scores :
                      LET genre == genre_scores[i][1]
                          sub == genre_scores[i][2]
                      IN  /\ Keys(sub) =
                                 {id \in Keys(scores_dictionary) :
                                      Get(tracks_dictionary, id).genre = genre}
                          /\ Len(sub) = Cardinality(Keys(sub))
                          /\ \A id \in Keys(sub) : Get(sub, id) = Get(scores_dictionary, id)
               /\ \A id \in Keys(scores_dictionary) :
                      Cardinality({i \in DOMAIN genre_scores : Has(genre_scores[i][2], id)}) = 1

\* Three tracks of genres rock, rock and jazz, two of them scored.
C2_Witness ==
    /\ called = "split_by_genre"
    /\ Len(tracks_dictionary) = 3
    /\ [i \in 1..3 |-> tracks_dictionary[i][2].genre] = <<"rock", "rock", "jazz">>
    /\ Keys(scores_dictionary) = {tracks_dictionary[1][1], tracks_dictionary[2][1]}
    /\ ret.kind = "return"
    /\ Len(ret.val) = 2
    /\ ret.val[1][1] = "rock"
    /\ ret.val[1][2] = scores_dictionary
    /\ ret.val[2] = <<"jazz", <<>> >>

\* C3: get_tempo_vs_performance returns (when every identifier of
\* scores_dictionary is a key of tracks_dictionary, and only then) two arrays
\* as long as scores_dictionary, whose i-th tempo is the tempo of the i-th
\* identifier of scores_dictionary and whose i-th score is that identifier's
\* score.
C3_TempoScoreAligned ==
    called = "get_tempo_vs_performance" =>
        /\ ret.kind = "return" <=> Keys(scores_dictionary) \subseteq Keys(tracks_dictionary)
        /\ ret.kind = "return" =>
               LET tempo == ret.val[1]
                   scores == ret.val[2]
               IN  /\ Len(tempo) = Len(scores_dictionary)
                   /\ Len(scores) = Len(scores_dictionary)
                   /\ \A i \in DOMAIN scores_dictionary :
                          /\ tempo[i] = Get(tracks_dictionary, scores_dictionary[i][1]).tempo
                          /\ scores[i] = scores_dictionary[i][2]

\* {"a": 0.5, "b": 0.8} with tempos 120 and 90, the tracks stored in the
\* opposite order.
C3_Witness ==
    /\ called = "get_tempo_vs_performance"
    /\ scores_dictionary = <<(<<"a", <<1, 2>> >>), (<<"b", <<4, 5>> >>)>>
    /\ Len(tracks_dictionary) = 2
    /\ tracks_dictionary[1][1] = "b"
    /\ ret = Return(<<(<<120, 90>>), (<<(<<1, 2>>), (<<4, 5>>)>>)>>)

----------------------------------------------------------------------------
(* Repeated and interleaved calls of the aggregators and time-axis helpers  *)
(* on the same mappings and the same curve.                                 *)

PureFns == {"split_by_genre", "get_tempo_vs_performance",
            "compute_time_sf", "compute_time_ml"}

\* seen[f]: the outcome of the first call of f, and whether f was called again.
Remember(f, outcome) ==
    [seen EXCEPT ![f] = IF @.outcome = NoCall
                        THEN [outcome |-> outcome, again |-> FALSE]
                        ELSE [@ EXCEPT !.again = TRUE]]

\* As AgainSplitByGenre, consuming the scores it has grouped.
AgainSplitByGenrePopping ==
    /\ called' = "split_by_genre"
    /\ ret' = split_by_genre(scores_dictionary, tracks_dictionary)
    /\ scores_dictionary' = <<>>
    /\ seen' = Remember("split_by_genre", ret')
    /\ UNCHANGED <<tracks_dictionary, estimated_beats, novelty, args, initialize_call>>

AgainSplitByGenre ==
    /\ called' = "split_by_genre"
    /\ ret' = split_by_genre(scores_dictionary, tracks_dictionary)
    /\ seen' = Remember("split_by_genre", ret')
    /\ UNCHANGED <<tracks_dictionary, estimated_beats, scores_dictionary, novelty,
                   args, initialize_call>>

AgainGetTempoVsPerformance ==
    /\ called' = "get_tempo_vs_performance"
    /\ ret' = get_tempo_vs_performance(scores_dictionary, tracks_dictionary)
    /\ seen' = Remember("get_tempo_vs_performance", ret')
    /\ UNCHANGED <<tracks_dictionary, estimated_beats, scores_dictionary, novelty,
                   args, initialize_call>>

AgainComputeTimeSf ==
    /\ called' = "compute_time_sf"
    /\ ret' = Return(compute_time_sf(novelty, args.hop_size, args.sr))
    /\ seen' = Remember("compute_time_sf", ret')
    /\ UNCHANGED <<tracks_dictionary, estimated_beats, scores_dictionary, novelty,
                   args, initialize_call>>

AgainComputeTimeMl ==
    /\ called' = "compute_time_ml"
    /\ ret' = Return(compute_time_ml(novelty, args.sr_ml))
    /\ seen' = Remember("compute_time_ml", ret')
    /\ UNCHANGED <<tracks_dictionary, estimated_beats, scores_dictionary, novelty,
                   args, initialize_call>>

PureInit ==
    /\ tracks_dictionary \in Dicts(TrackIds, {Track(<<>>, g, 120) : g \in Genres})
    /\ scores_dictionary \in Dicts(TrackIds, Scores)
    /\ novelty \in {[i \in 1..n |-> 0] : n \in 0..MaxFrames}
    /\ args \in [fn : {"any"}, hop_size : {<<>>, <<1>>}, sr : {<<>>}, sr_ml : {<<>>}]
    /\ estimated_beats = <<>>
    /\ called = ""
    /\ ret = NoCall
    /\ initialize_call = <<>>
    /\ seen = [f \in PureFns |-> [outcome |-> NoCall, again |-> FALSE]]

PureNext ==
    \/ AgainSplitByGenre
    \/ AgainGetTempoVsPerformance
    \/ AgainComputeTimeSf
    \/ AgainComputeTimeMl

PureSpec == PureInit /\ [][PureNext]_vars

====
